---- MODULE Spec2Model ----
(***************************************************************************)
(* Verification model of jcomeauictx/curvature: the terrain-tile reader    *)
(* (hgtread.py) and the horizon panorama pipeline (panorama.py).           *)
(*                                                                         *)
(* The sources are Python 2: `/` between ints is floor division, `%` takes *)
(* the sign of the divisor, int() truncates toward zero and round() rounds *)
(* halves away from zero.                                                  *)
(*                                                                         *)
(* Each component has its own specification over the shared variables:     *)
(*   SpecVoid    correct_for_no_data                                       *)
(*   SpecDegree  dms, decimal, Degree and Degree.__add__                   *)
(*   SpecHeight  get_hgt_file, north_offset, east_offset, get_height       *)
(*   SpecBearing cartesian, compass                                        *)
(*   SpecMove    spherical_move, equirectangular_move,                     *)
(*               azimuthal_equidistant_move                                *)
(* A component that a specification does not exercise stays idle.          *)
(***************************************************************************)
EXTENDS Integers, Sequences, FiniteSets, TLC

VARIABLES
    \* ---- void interpolator (panorama.correct_for_no_data) ----
    raw_in,       \* the ray as it was on entry
    elevations,   \* the ray, modified in place
    farthest,     \* the caller's default element for the far end
    vpc,          \* "call" before the call, "done" after it
    \* ---- Degree arithmetic (hgtread.Degree, dms, decimal) ----
    dinput,       \* what the Degree is built from: <<"decimal", t>> or
                  \* <<"tuple", <<d, m, s>>>>; forgotten once the walk starts
    deg,          \* the current Degree: [d, m, s, sign]
    seconds,      \* the increment of the last addition
    back,         \* <<decimal(deg)>>, once computed
    dpc,          \* "new", "made" (constructed), "added" (after an addition)
    \* ---- tile locator and reader (hgtread.get_height) ----
    arg_north,    \* the arguments of the last get_height call
    arg_east,
    located,      \* what get_hgt_file returned for them
    seek_offset,  \* the byte offset sought in the tile file
    height,       \* <<elevation>> returned by the last call
    used,         \* the file handle the last call read through
    OPEN_FILES,   \* path -> cached file handle
    opened,       \* the paths given to open(), in order; handle k is the
                  \* file object the k-th open() returned
    calls,        \* number of get_height calls so far
    hpc,          \* "ready", or "raised" after an uncaught exception
    \* ---- bearing conversion (panorama.cartesian, compass) ----
    bearing_in,       \* a bearing in degrees
    converted_once,   \* cartesian(bearing_in)
    converted_twice,  \* compass(cartesian(bearing_in))
    bpc,              \* "new", "once", "twice"
    \* ---- movement strategies (panorama.*_move) ----
    from,             \* <<latitude, longitude>> of the start
    move_bearing,     \* the bearing argument
    move_distance,    \* the distance argument, in DEGREE_IN_METERS
    compass_flag,     \* the compass_bearing argument
    spherical,        \* result of spherical_move, <<>> before the call
    equirectangular,  \* result of equirectangular_move
    azimuthal,        \* result of azimuthal_equidistant_move
    displaced,        \* azimuthal_equidistant_move's point <<x, y>> once moved
    marched,          \* the results of the calls in the ray marcher's form
    \* ---- Earth-shape configuration (module load) ----
    env_radius,       \* EARTH_RADIUS_MILES in the environment, or "unset"
    env_refraction,   \* COEFFICIENT_OF_REFRACTION in the environment
    R,                \* earthcurvature.R (= earthcurvature.RADIUS), miles
    ER,               \* earthcurvature.ER, the effective radius, miles
    K,                \* earthcurvature.K
    RADIUS,           \* hgtread.RADIUS, in centimetres
    move,             \* panorama.move: the name of the function it is
    OCEANFRONT,       \* panorama.OCEANFRONT
    cpc,              \* which modules are loaded
    \* ---- panorama.panorama ----
    pan_args,         \* [bearing, latitude, longitude, distance, span]
    pan_angle,        \* `angle`, the direction of the next column, degrees
    pan_height,       \* `height`, eye level above sea level, millimetres
    pan_elevations,   \* `elevations`: one ray of [raw, y, y_image] a column
    ppc,              \* position in panorama
    \* ---- panorama.look ----
    look_angle,       \* the `angle` argument
    look_at,          \* <<north, east>>, the point to sample next
    traversed,        \* distance moved so far, in range units
    look_elevations,  \* the list being built
    visited,          \* the points sampled so far, in order
    \* ---- the rasterizer loop of panorama.panorama ----
    image,            \* the PIL image `panorama`: column -> row -> pixel
    pointlist,        \* the working list of the column being painted
    paint_x,          \* `x`, the column being painted
    paint_depth,      \* `depth`, the next position of pointlist to visit
    context,          \* `context` of the last position visited
    painted           \* the pixels <<x, y, colour>> the last visit wrote

voidVars == <<raw_in, elevations, farthest, vpc>>
degVars == <<dinput, deg, seconds, back, dpc>>
heightVars == <<arg_north, arg_east, located, seek_offset, height, used, OPEN_FILES,
                opened, calls, hpc>>
bearingVars == <<bearing_in, converted_once, converted_twice, bpc>>
moveVars == <<from, move_bearing, move_distance, compass_flag, spherical,
              equirectangular, azimuthal, displaced, marched>>
configVars == <<env_radius, env_refraction, R, ER, K, RADIUS, move, OCEANFRONT,
                cpc>>
panVars == <<pan_args, pan_angle, pan_height, pan_elevations, ppc>>
lookVars == <<look_angle, look_at, traversed, look_elevations, visited>>
paintVars == <<image, pointlist, paint_x, paint_depth, context, painted>>
renderVars == <<configVars, panVars, lookVars, paintVars>>
vars == <<voidVars, degVars, heightVars, bearingVars, moveVars, renderVars>>

(***************************************************************************)
(* Arithmetic of the Python 2 runtime                                      *)
(***************************************************************************)
Abs(x) == IF x < 0 THEN -x ELSE x

Sgn(x) == IF x < 0 THEN -1 ELSE IF x > 0 THEN 1 ELSE 0

\* int(x) of the quotient num/den, den > 0: truncation toward zero
Trunc(num, den) == IF num >= 0 THEN num \div den ELSE -((-num) \div den)

\* round(num/den), den > 0: nearest integer, halves away from zero
Round(num, den) ==
    IF num >= 0 THEN (2 * num + den) \div (2 * den)
    ELSE -((2 * (-num) + den) \div (2 * den))

\* Python's a % b: the result has the sign of the divisor b
PyMod(a, b) == IF b > 0 THEN a % b ELSE -((-a) % (-b))

\* Python 2's a / b on ints: floor division
FloorDiv(a, b) ==
    IF b > 0 THEN (a - (a % b)) \div b ELSE ((-a) - ((-a) % (-b))) \div (-b)

NONE == "none"

\* the "no data" sample of a tile
VOID == -32768

(***************************************************************************)
(* The state of a component that a specification leaves alone              *)
(***************************************************************************)
HeightIdle ==
    /\ arg_north = <<>>
    /\ arg_east = <<>>
    /\ located = [filebase |-> <<>>, matched |-> <<>>, lat |-> 0, lon |-> 0,
                  d_lat |-> 0, d_lon |-> 0]
    /\ seek_offset = -1
    /\ height = <<>>
    /\ used = 0
    /\ OPEN_FILES = <<>>
    /\ opened = <<>>
    /\ calls = 0
    /\ hpc = "idle"

BearingIdle ==
    /\ bearing_in = 0
    /\ converted_once = "none"
    /\ converted_twice = "none"
    /\ bpc = "idle"

MoveIdle ==
    /\ from = <<>>
    /\ move_bearing = 0
    /\ move_distance = 0
    /\ compass_flag = TRUE
    /\ spherical = <<>>
    /\ equirectangular = <<>>
    /\ azimuthal = <<>>
    /\ displaced = <<>>
    /\ marched = <<>>

VoidIdle ==
    /\ raw_in = <<>>
    /\ elevations = <<>>
    /\ farthest = <<>>
    /\ vpc = "idle"

ConfigIdle ==
    /\ env_radius = "unset"
    /\ env_refraction = "unset"
    /\ R = <<>>
    /\ ER = <<>>
    /\ K = <<>>
    /\ RADIUS = 0
    /\ move = "none"
    /\ OCEANFRONT = FALSE
    /\ cpc = "idle"

PanoramaIdle ==
    /\ pan_args = [bearing |-> 0, latitude |-> 0, longitude |-> 0,
                   distance |-> 0, span |-> 0]
    /\ pan_angle = 0
    /\ pan_height = 0
    /\ pan_elevations = <<>>
    /\ ppc = "idle"

LookIdle ==
    /\ look_angle = 0
    /\ look_at = <<>>
    /\ traversed = 0
    /\ look_elevations = <<>>
    /\ visited = <<>>

PaintIdle ==
    /\ image = [col \in {} |-> <<>>]
    /\ pointlist = <<>>
    /\ paint_x = 0
    /\ paint_depth = 0
    /\ context = <<>>
    /\ painted = [branch |-> "none", col |-> 0, top |-> <<>>, rows |-> {},
                  color |-> <<>>]

RenderIdle == ConfigIdle /\ PanoramaIdle /\ LookIdle /\ PaintIdle

DegreeIdle ==
    /\ dinput = NONE
    /\ deg = NONE
    /\ seconds = 0
    /\ back = <<>>
    /\ dpc = "idle"

(***************************************************************************)
(* Degree arithmetic (hgtread.py)                                          *)
(*                                                                         *)
(* A decimal-degree value is a whole number of ticks, TICKS to the         *)
(* arc-second, so that coordinates between two samples and between two     *)
(* arc-seconds exist.  Minutes and seconds of a DMS triple are whole.      *)
(***************************************************************************)
SAMPLE_SECONDS == 3
DEGREE_IN_SECONDS == 60 * 60
SAMPLES_PER_ROW == (DEGREE_IN_SECONDS \div SAMPLE_SECONDS) + 1
BYTES_PER_ROW == SAMPLES_PER_ROW * 2

TICKS == 2
MaxDegrees == 2

DegreeTicks == DEGREE_IN_SECONDS * TICKS
MinuteTicks == 60 * TICKS

\* m = int((degrees - d) * 60)
dms_minutes(degrees, d) == Trunc(degrees - d * DegreeTicks, MinuteTicks)

\* s = (degrees - d - (m / 60.0)) * 3600, in ticks
dms_seconds_intdiv(degrees, d, m) ==
    degrees - d * DegreeTicks - FloorDiv(m, 60) * DegreeTicks
dms_seconds(degrees, d, m) == degrees - d * DegreeTicks - m * MinuteTicks

\* dms(degrees, roundto): d = int(degrees); m; s;
\* rounded_s = (int(s) / roundto) * roundto
dms(degrees, roundto) ==
    LET d == Trunc(degrees, DegreeTicks)
        m == dms_minutes(degrees, d)
        s == dms_seconds(degrees, d, m)
        rounded_s == FloorDiv(Trunc(s, TICKS), roundto) * roundto
    IN  <<d, m, rounded_s>>

\* decimal(dms) = d + m / 60.0 + s / 3600.0, in ticks
decimal(t) == t[1] * DegreeTicks + t[2] * MinuteTicks + t[3] * TICKS

\* math.copysign(1, x) for an int x: an int zero has no sign, so it gives +1
copysign1(x) == IF x < 0 THEN -1 ELSE 1

\* sign=None
NoSign == 0

\* Degree.__new__ / __init__ from a tuple and an optional sign
DegreeOf(t, sign) ==
    [d |-> t[1], m |-> t[2], s |-> t[3],
     sign |-> IF sign = NoSign THEN copysign1(t[1]) ELSE sign]

\* Degree(degree): from a decimal value through dms, or from a tuple
Degree(input) ==
    IF input[1] = "decimal" THEN DegreeOf(dms(input[2], SAMPLE_SECONDS), NoSign)
    ELSE DegreeOf(input[2], NoSign)

AsTuple(g) == <<g.d, g.m, g.s>>

\* Degree.__add__(self, seconds)
Degree_add(self, secs) ==
    IF secs = 0 THEN self
    ELSE LET dir == secs \div Abs(secs)
             sign == IF AsTuple(self) = <<0, 0, 0>> THEN dir ELSE self.sign
             s1 == self.s + secs
             carry_s == Abs(s1) = 60 \/ (s1 # 0 /\ Sgn(s1) # sign)
             s2 == IF carry_s THEN PyMod(s1, sign * 60) ELSE s1
             m1 == IF carry_s THEN self.m + dir ELSE self.m
             carry_m == carry_s /\ (Abs(m1) = 60 \/ (m1 # 0 /\ Sgn(m1) # sign))
             m2 == IF carry_m THEN PyMod(m1, sign * 60) ELSE m1
             d2 == IF carry_m THEN self.d + dir ELSE self.d
         IN  DegreeOf(<<d2, m2, s2>>, sign)

\* the angle a triple stands for, in arc-seconds
TotalSeconds(g) == 3600 * g.d + 60 * g.m + g.s

DecimalInputs == (-(MaxDegrees * DegreeTicks))..(MaxDegrees * DegreeTicks)

\* sample-aligned triples whose components share one sign
TupleInputs ==
    {<<sg * d, sg * m, sg * SAMPLE_SECONDS * q>> :
        sg \in {-1, 1}, d \in 0..MaxDegrees, m \in 0..59,
        q \in 0..((60 \div SAMPLE_SECONDS) - 1)}

DegreeInit ==
    /\ dinput \in ({<<"decimal", t>> : t \in DecimalInputs}
                      \cup {<<"tuple", t>> : t \in TupleInputs})
    /\ deg = NONE
    /\ seconds = 0
    /\ back = <<>>
    /\ dpc = "new"

\* Degree(value)
DegreeNew ==
    /\ dpc = "new"
    /\ deg' = Degree(dinput)
    /\ dpc' = "made"
    /\ UNCHANGED <<dinput, seconds, back>>
    /\ UNCHANGED <<voidVars, heightVars, bearingVars, moveVars, renderVars>>

\* decimal(degree)
DecimalOf ==
    /\ dpc = "made"
    /\ back = <<>>
    /\ back' = <<decimal(AsTuple(deg))>>
    /\ UNCHANGED <<dinput, deg, seconds, dpc>>
    /\ UNCHANGED <<voidVars, heightVars, bearingVars, moveVars, renderVars>>

\* degree += seconds, one sample spacing either way (as dump_samples walks)
DegreeAdd ==
    /\ dpc \in {"made", "added"}
    /\ \E k \in {SAMPLE_SECONDS, -SAMPLE_SECONDS} :
          /\ Abs(TotalSeconds(Degree_add(deg, k))) <= MaxDegrees * DEGREE_IN_SECONDS
          /\ deg' = Degree_add(deg, k)
          /\ seconds' = k
    /\ dinput' = NONE
    /\ back' = <<>>
    /\ dpc' = "added"
    /\ UNCHANGED <<voidVars, heightVars, bearingVars, moveVars, renderVars>>

(***************************************************************************)
(* Void interpolator                                                       *)
(***************************************************************************)

\* indices of the three fields of a ray element (Python 0, 1, 2)
raw == 1
y_cartesian == 2
y_image == 3

image_height == 360
horizon == image_height \div 2

MaxLen == 5
RawValues == {VOID, 0, 13, 26}
Defaults == {0, -7}

\* the element panorama builds around a sample: [e] + nearest[y_cartesian:]
Element(e) == <<e, -horizon, image_height - 1>>

\* last_known = farthest[raw]
InitialLastKnownIgnored(far, rawix) == 0
InitialLastKnown(far, rawix) == far[rawix]

\* int(round(elevation + i * increment)),
\* increment = float(last_known - elevation) / (count + 1)
InterpolatedOverCount(elevation, last_known, count, i) ==
    Round(elevation * count + i * (last_known - elevation), count)
Interpolated(elevation, last_known, count, i) ==
    Round(elevation * (count + 1) + i * (last_known - elevation), count + 1)

\* for i in range(count + 1): elevations[index + i][raw] = ...
RECURSIVE Fill(_, _, _, _, _, _, _)
Fill(elevs, rawix, index, i, count, elevation, last_known) ==
    IF i > count THEN elevs
    ELSE Fill([elevs EXCEPT ![index + i][rawix] =
                   Interpolated(elevation, last_known, count, i)],
              rawix, index, i + 1, count, elevation, last_known)

\* for index in range(len(elevations) - 1, -1, -1): ...
RECURSIVE Scan(_, _, _, _, _, _)
Scan(elevs, rawix, index, state, count, last_known) ==
    IF index < 1 THEN elevs
    ELSE LET elevation == elevs[index][rawix] IN
         IF elevation = VOID
         THEN IF state = "scanning"
              THEN Scan(elevs, rawix, index - 1, "counting", 1, last_known)
              ELSE Scan(elevs, rawix, index - 1, state, count + 1, last_known)
         ELSE IF state = "scanning"
              THEN Scan(elevs, rawix, index - 1, state, count, elevation)
              ELSE Scan(Fill(elevs, rawix, index, 0, count, elevation, last_known),
                        rawix, index - 1, "scanning", count, elevation)

correct_for_no_data(elevs, rawix, far) ==
    Scan(elevs, rawix, Len(elevs), "scanning", 0, InitialLastKnown(far, rawix))

RECURSIVE RaysOfLen(_)
RaysOfLen(n) ==
    IF n = 0 THEN {<<>>}
    ELSE {Append(r, Element(e)) : r \in RaysOfLen(n - 1), e \in RawValues}

Rays == UNION {RaysOfLen(n) : n \in 1..MaxLen}

VoidInit ==
    /\ elevations \in Rays
    /\ raw_in = elevations
    /\ farthest \in {<<d, 0, horizon - 1>> : d \in Defaults}
    /\ vpc = "call"

CorrectForNoData ==
    /\ vpc = "call"
    /\ elevations' = correct_for_no_data(elevations, raw, farthest)
    /\ vpc' = "done"
    /\ UNCHANGED <<raw_in, farthest>>
    /\ UNCHANGED <<degVars, heightVars, bearingVars, moveVars, renderVars>>

(***************************************************************************)
(* Terrain tile locator and reader (hgtread.py)                            *)
(*                                                                         *)
(* A coordinate argument is <<"decimal", t>> (t in ticks) or               *)
(* <<"tuple", <<d, m, s>>>>.  A tile's file name such as 'N37W120.hgt' is  *)
(* the tuple <<"N", 37, "W", 120>>; a path under DEM_DATA is the sequence  *)
(* of its directory names followed by the file name.                       *)
(***************************************************************************)
MaxTileDegree == 1
MaxCalls == 2

\* degrees(value): float(value), or decimal(value) for a tuple
degrees(value) == IF value[1] = "decimal" THEN value[2] ELSE decimal(value[2])

\* the tile number of a southern latitude: abs(lat) + 1
south_number_unshifted(lat) == Abs(lat)
south_number(lat) == Abs(lat) + 1

\* the tiles present under DEM_DATA: every tile of the modelled area but
\* S02W002, directly under DEM_DATA or one or two directories deep
TileNames ==
    {<<ns, a, ew, b>> : ns \in {"N", "S"}, a \in 0..(MaxTileDegree + 1),
                        ew \in {"E", "W"}, b \in 0..(MaxTileDegree + 1)}
        \ {<<"S", 2, "W", 2>>}

TilePath(filebase) ==
    LET depth == (filebase[2] + filebase[4]) % 3
    IN  IF depth = 0 THEN <<filebase>>
        ELSE IF depth = 1 THEN <<"srtm3", filebase>>
        ELSE <<"srtm3", "region", filebase>>

DemFiles == {TilePath(f) : f \in TileNames}

\* glob.glob(os.path.join(DEM_DATA, '*', ..., filebase)), depth directories
Glob(depth, filebase) ==
    {p \in DemFiles : Len(p) = depth + 1 /\ p[Len(p)] = filebase}

\* the first pattern of `globbed` that matches gives the file, else None
MatchedOrFirst(filebase) ==
    IF Glob(0, filebase) # {} THEN CHOOSE p \in Glob(0, filebase) : TRUE
    ELSE IF Glob(1, filebase) # {} THEN CHOOSE p \in Glob(1, filebase) : TRUE
    ELSE IF Glob(2, filebase) # {} THEN CHOOSE p \in Glob(2, filebase) : TRUE
    ELSE CHOOSE p \in DemFiles : TRUE
Matched(filebase) ==
    IF Glob(0, filebase) # {} THEN CHOOSE p \in Glob(0, filebase) : TRUE
    ELSE IF Glob(1, filebase) # {} THEN CHOOSE p \in Glob(1, filebase) : TRUE
    ELSE IF Glob(2, filebase) # {} THEN CHOOSE p \in Glob(2, filebase) : TRUE
    ELSE <<>>

\* get_hgt_file(north, east): matched = <<>> stands for the ValueError raised
get_hgt_file(north, east) ==
    LET latitude == degrees(north)
        lat == IF latitude < 0 THEN Trunc(latitude, DegreeTicks)
               ELSE Trunc(latitude, DegreeTicks) + 1
        ns == IF latitude < 0 THEN "S" ELSE "N"
        latnum == IF latitude < 0 THEN south_number(lat) ELSE lat - 1
        d_lat == IF latitude < 0 THEN SAMPLE_SECONDS ELSE -SAMPLE_SECONDS
        longitude == degrees(east)
        lon == IF longitude < 0 THEN Trunc(longitude, DegreeTicks) - 1
               ELSE Trunc(longitude, DegreeTicks)
        ew == IF longitude < 0 THEN "W" ELSE "E"
        lonnum == IF longitude < 0 THEN Abs(lon) ELSE lon
        d_lon == SAMPLE_SECONDS
        filebase == <<ns, latnum, ew, lonnum>>
    IN  [filebase |-> filebase, matched |-> Matched(filebase),
         lat |-> lat, lon |-> lon, d_lat |-> d_lat, d_lon |-> d_lon]

\* north_offset(north, direction): byte offset of the row
north_offset(north, direction) ==
    LET row == FloorDiv(Abs(north.m * 60 + north.s), Abs(direction))
    IN  (IF copysign1(direction) # north.sign
         THEN SAMPLES_PER_ROW - row - 1 ELSE row) * BYTES_PER_ROW

\* east_offset(east, direction): byte offset within the row
east_offset(east, direction) ==
    LET column == FloorDiv(Abs(east.m * 60 + east.s), Abs(direction))
    IN  (IF copysign1(direction) # east.sign
         THEN SAMPLES_PER_ROW - column - 1 ELSE column) * 2

\* the terrain: an elevation for every sample position of the globe, counted
\* in samples north and east of (0, 0); some positions are voids
Terrain(north_samples, east_samples) ==
    IF (north_samples + 2 * east_samples) % 7 = 3 THEN VOID
    ELSE ((north_samples + 3 * east_samples) % 40) - 5

\* the two bytes of a big-endian signed short
PackSample(v) == LET u == v % 65536 IN <<u \div 256, u % 256>>

\* unpack_sample(sample): struct.unpack('>h', sample)[0]
unpack_sample(sample) ==
    LET u == sample[1] * 256 + sample[2]
    IN  IF u >= 32768 THEN u - 65536 ELSE u

\* the tile's stored latitude of its north edge and longitude of its west
\* edge, in degrees: rows run north to south, columns west to east
TileNorthEdge(filebase) ==
    IF filebase[1] = "N" THEN filebase[2] + 1 ELSE -filebase[2] + 1
TileWestEdge(filebase) ==
    IF filebase[3] = "E" THEN filebase[4] ELSE -filebase[4]

FileSize == SAMPLES_PER_ROW * BYTES_PER_ROW

\* infile.seek(offset); infile.read(2): the bytes at offset, <<>> past the end
ReadTwoBytes(path, offset) ==
    IF offset < 0 \/ offset + 2 > FileSize THEN <<>>
    ELSE LET filebase == path[Len(path)]
             index == offset \div 2
             row == index \div SAMPLES_PER_ROW
             col == index % SAMPLES_PER_ROW
         IN  PackSample(Terrain(
                 TileNorthEdge(filebase) * (SAMPLES_PER_ROW - 1) - row,
                 TileWestEdge(filebase) * (SAMPLES_PER_ROW - 1) + col))

\* seconds within the degree of the coordinates tried
CoordSeconds == {0, 3, 58, 900, 3597}

\* the coordinates of a first call: both signs, on and off a sample, on and
\* off a whole degree
GridCoords ==
    {<<"decimal", sg * ((dg * DEGREE_IN_SECONDS + f) * TICKS + h)>> :
        sg \in {-1, 1}, dg \in 0..MaxTileDegree, f \in CoordSeconds, h \in {0, 1}}

\* the coordinates later calls come back to
RevisitNorth == {<<"decimal", -(4500 * TICKS)>>, <<"decimal", 1800 * TICKS>>}
RevisitEast == {<<"decimal", 900 * TICKS>>, <<"decimal", -(900 * TICKS)>>,
                <<"decimal", -(4500 * TICKS)>>}

\* `located` before the first call
NotLocated ==
    [filebase |-> <<>>, matched |-> <<>>, lat |-> 0, lon |-> 0, d_lat |-> 0,
     d_lon |-> 0]

HeightInit ==
    /\ arg_north = <<>>
    /\ arg_east = <<>>
    /\ located = NotLocated
    /\ seek_offset = -1
    /\ height = <<>>
    /\ used = 0
    /\ OPEN_FILES = <<>>
    /\ opened = <<>>
    /\ calls = 0
    /\ hpc = "ready"

\* get_height(north, east): the call's effect on the reader's state
get_height(n, e) ==
    LET f == get_hgt_file(n, e)
        dms_north == Degree(<<"decimal", degrees(n)>>)
        dms_east == Degree(<<"decimal", degrees(e)>>)
        off == north_offset(dms_north, f.d_lat)
                   + east_offset(dms_east, f.d_lon)
        \* open(filename, 'rb') is evaluated before setdefault is called
        handle == Len(opened) + 1
        infile == IF f.matched \in DOMAIN OPEN_FILES
                  THEN OPEN_FILES[f.matched] ELSE handle
        sample == ReadTwoBytes(f.matched, off)
    IN  /\ arg_north' = n
        /\ arg_east' = e
        /\ located' = f
        /\ calls' = calls + 1
        /\ IF f.matched = <<>>
           THEN \* ValueError('No match for ...')
                /\ hpc' = "raised"
                /\ height' = <<>>
                /\ UNCHANGED <<seek_offset, used, OPEN_FILES, opened>>
           ELSE /\ seek_offset' = off
                /\ opened' = Append(opened, f.matched)
                /\ OPEN_FILES' =
                      IF f.matched \in DOMAIN OPEN_FILES THEN OPEN_FILES
                      ELSE (f.matched :> handle) @@ OPEN_FILES
                /\ used' = infile
                /\ IF sample = <<>>
                   THEN \* ValueError('Bad sample for short: ...')
                        /\ hpc' = "raised"
                        /\ height' = <<>>
                   ELSE /\ hpc' = "ready"
                        /\ height' = <<unpack_sample(sample)>>

\* a call of get_height from outside the render
GetHeight ==
    /\ hpc = "ready"
    /\ calls < MaxCalls
    /\ \E n \in (IF calls = 0 THEN GridCoords ELSE RevisitNorth),
          e \in (IF calls = 0 THEN GridCoords ELSE RevisitEast) :
          get_height(n, e)
    /\ UNCHANGED <<voidVars, degVars, bearingVars, moveVars, renderVars>>

(***************************************************************************)
(* Bearings and movement strategies (panorama.py)                          *)
(*                                                                         *)
(* Latitudes, longitudes and bearings are whole degrees and a distance is  *)
(* a whole number of DEGREE_IN_METERS.  Sines and cosines are taken only   *)
(* of multiples of 90 degrees, and of the latitudes 0 and +-60, where they *)
(* are exact; a move whose result is not exact is not taken.               *)
(***************************************************************************)
MaxBearing == 400
MaxMove == 2

\* cartesian(bearing)
cartesian_closed(bearing) ==
    LET converted == (90 - bearing) % 360
    IN  IF converted >= 180 THEN converted - 360
        ELSE IF converted < -180 THEN converted + 360
        ELSE converted
cartesian(bearing) ==
    LET converted == (90 - bearing) % 360
    IN  IF converted > 180 THEN converted - 360
        ELSE IF converted < -180 THEN converted + 360
        ELSE converted

\* compass = cartesian
compass(bearing) == cartesian(bearing)

\* math.sin(math.radians(a)) and math.cos(math.radians(a)), a % 90 = 0
SinDeg(a) == LET r == a % 360
             IN  IF r = 90 THEN 1 ELSE IF r = 270 THEN -1 ELSE 0
CosDeg(a) == LET r == a % 360
             IN  IF r = 0 THEN 1 ELSE IF r = 180 THEN -1 ELSE 0

\* 1 / math.cos(math.radians(h / 2.0)) for a latitude given in half degrees:
\* 1 at the equator, 2 at 60 degrees north or south
SecantOfHalfDegrees(h) == IF h = 0 THEN 1 ELSE 2
SecantExact(h) == h \in {0, 120, -120}

\* the cartesian bearing a move function works with
MoveAngle(bearing, compass_bearing) ==
    IF compass_bearing THEN cartesian(bearing) ELSE bearing

\* spherical_move(latitude, longitude, bearing, distance, compass_bearing)
spherical_move(latitude, longitude, bearing, distance, compass_bearing) ==
    LET angle == MoveAngle(bearing, compass_bearing)
        distance_x == CosDeg(angle) * distance
        distance_y == SinDeg(angle) * distance
        degrees_y == distance_y
        average_latitude == 2 * latitude + degrees_y    \* in half degrees
        degrees_x == IF distance_x = 0 THEN 0
                     ELSE distance_x * SecantOfHalfDegrees(average_latitude)
    IN  <<degrees_y + latitude, degrees_x + longitude>>

SphericalExact(latitude, bearing, distance, compass_bearing) ==
    LET angle == MoveAngle(bearing, compass_bearing)
        average_latitude == 2 * latitude + SinDeg(angle) * distance
    IN  IF CosDeg(angle) = 0 THEN average_latitude % 360 # 180
        ELSE SecantExact(average_latitude)

\* equirectangular_move(latitude, longitude, bearing, distance, compass_bearing)
equirectangular_move_cosine(latitude, longitude, bearing, distance, compass_bearing) ==
    LET angle == MoveAngle(bearing, compass_bearing)
        dx == SinDeg(angle) * distance
        dy == CosDeg(angle) * distance
    IN  <<latitude + dx,
          longitude + dy * SecantOfHalfDegrees(2 * latitude + dx)>>
equirectangular_move(latitude, longitude, bearing, distance, compass_bearing) ==
    LET angle == MoveAngle(bearing, compass_bearing)
        dx == SinDeg(angle) * distance
        dy == CosDeg(angle) * distance
    IN  <<latitude + dx, longitude + dy>>

\* latitude_to_rho(latitude); rho_to_latitude is the same function
latitude_to_rho(latitude) == 90 - latitude
rho_to_latitude(rho) == latitude_to_rho(rho)

\* relative_bearing(bearing, longitude, compass_bearing), in degrees
relative_bearing(bearing, longitude, compass_bearing) ==
    cartesian(180 + longitude
                  + (IF compass_bearing THEN bearing ELSE compass(bearing)))

\* math.degrees(math.atan2(y, x)) for a point on an axis
Atan2Deg(y, x) ==
    IF y = 0 THEN (IF x < 0 THEN 180 ELSE 0)
    ELSE IF y > 0 THEN 90 ELSE -90

\* azimuthal_equidistant_move(latitude, longitude, bearing, distance,
\* compass_bearing): `radians`, the relative bearing, is computed and then
\* not used; the displacement is taken along `bearing` as it was passed
azimuthal_equidistant_move(latitude, longitude, bearing, distance, compass_bearing) ==
    LET radians == relative_bearing(bearing, longitude, compass_bearing)
        rho == latitude_to_rho(latitude)
        theta == longitude
        x == rho * SinDeg(theta)
        y == rho * CosDeg(theta)
        d == equirectangular_move(0, 0, bearing, distance, FALSE)
        x2 == x + d[1]
        y2 == y + d[2]
        rho2 == Abs(x2) + Abs(y2)      \* sqrt(x*x + y*y) on an axis
        theta2 == Atan2Deg(y2, x2)
    IN  <<rho_to_latitude(rho2), compass(theta2)>>

\* lines 410-415 of azimuthal_equidistant_move: the point <<x, y>> of the
\* plane after the displacement, for a longitude that is a multiple of 90
azimuthal_displaced(latitude, longitude, bearing, distance, compass_bearing) ==
    LET radians == relative_bearing(bearing, longitude, compass_bearing)
        rho == latitude_to_rho(latitude)
        theta == longitude
        d == equirectangular_move(0, 0, bearing, distance, FALSE)
    IN  <<rho * SinDeg(theta) + d[1], rho * CosDeg(theta) + d[2]>>

AzimuthalExact(latitude, longitude, bearing, distance) ==
    LET rho == latitude_to_rho(latitude)
        d == equirectangular_move(0, 0, bearing, distance, FALSE)
    IN  /\ longitude % 90 = 0
        /\ rho * SinDeg(longitude) + d[1] = 0
               \/ rho * CosDeg(longitude) + d[2] = 0

MoveLatitudes == {-60, 0, 30, 60}
MoveLongitudes == {-110, -90, 0, 90, 180}
MoveBearings == {-90, 0, 90, 180, 270}

BearingInit ==
    /\ bearing_in \in (-MaxBearing)..MaxBearing
    /\ converted_once = NONE
    /\ converted_twice = NONE
    /\ bpc = "new"

\* cartesian(bearing)
Cartesian ==
    /\ bpc = "new"
    /\ converted_once' = cartesian(bearing_in)
    /\ bpc' = "once"
    /\ UNCHANGED <<bearing_in, converted_twice>>
    /\ UNCHANGED <<voidVars, degVars, heightVars, moveVars, renderVars>>

\* compass(cartesian(bearing))
Compass ==
    /\ bpc = "once"
    /\ converted_twice' = compass(converted_once)
    /\ bpc' = "twice"
    /\ UNCHANGED <<bearing_in, converted_once>>
    /\ UNCHANGED <<voidVars, degVars, heightVars, moveVars, renderVars>>

MoveInit ==
    /\ from \in MoveLatitudes \X MoveLongitudes
    /\ move_bearing \in MoveBearings
    /\ move_distance \in 1..MaxMove
    /\ compass_flag \in BOOLEAN
    /\ spherical = <<>>
    /\ equirectangular = <<>>
    /\ azimuthal = <<>>
    /\ displaced = <<>>
    /\ marched = <<>>

SphericalMove ==
    /\ move_distance > 0
    /\ spherical = <<>>
    /\ SphericalExact(from[1], move_bearing, move_distance, compass_flag)
    /\ spherical' = spherical_move(from[1], from[2], move_bearing,
                                   move_distance, compass_flag)
    /\ UNCHANGED <<from, move_bearing, move_distance, compass_flag,
                   equirectangular, azimuthal, displaced, marched>>
    /\ UNCHANGED <<voidVars, degVars, heightVars, bearingVars, renderVars>>

EquirectangularMove ==
    /\ move_distance > 0
    /\ equirectangular = <<>>
    /\ equirectangular' = equirectangular_move(from[1], from[2], move_bearing,
                                               move_distance, compass_flag)
    /\ UNCHANGED <<from, move_bearing, move_distance, compass_flag,
                   spherical, azimuthal, displaced, marched>>
    /\ UNCHANGED <<voidVars, degVars, heightVars, bearingVars, renderVars>>

AzimuthalEquidistantMove ==
    /\ move_distance > 0
    /\ azimuthal = <<>>
    /\ AzimuthalExact(from[1], from[2], move_bearing, move_distance)
    /\ azimuthal' = azimuthal_equidistant_move(from[1], from[2], move_bearing,
                                               move_distance, compass_flag)
    /\ UNCHANGED <<from, move_bearing, move_distance, compass_flag,
                   spherical, equirectangular, displaced, marched>>
    /\ UNCHANGED <<voidVars, degVars, heightVars, bearingVars, renderVars>>

\* azimuthal_equidistant_move as far as line 415, called as the other move
\* actions are: the point before it is converted back to polar form
AzimuthalDisplace ==
    /\ move_distance > 0
    /\ displaced = <<>>
    /\ from[2] % 90 = 0
    /\ displaced' = azimuthal_displaced(from[1], from[2], move_bearing,
                                        move_distance, compass_flag)
    /\ UNCHANGED <<from, move_bearing, move_distance, compass_flag,
                   spherical, equirectangular, azimuthal, marched>>
    /\ UNCHANGED <<voidVars, degVars, heightVars, bearingVars, renderVars>>

\* look's form of the call, line 212: move(north, east, angle, d_travel,
\* False), for the cartesian angle of the compass bearing move_bearing.
\* A result that is not exact is left out as <<>>.
MarcherMove ==
    /\ move_distance > 0
    /\ compass_flag
    /\ marched = <<>>
    /\ LET angle == cartesian(move_bearing)
       IN  marched' =
             << IF SphericalExact(from[1], angle, move_distance, FALSE)
                THEN spherical_move(from[1], from[2], angle, move_distance,
                                    FALSE)
                ELSE <<>>,
                equirectangular_move(from[1], from[2], angle, move_distance,
                                     FALSE),
                IF from[2] % 90 = 0
                THEN azimuthal_displaced(from[1], from[2], angle,
                                         move_distance, FALSE)
                ELSE <<>> >>
    /\ UNCHANGED <<from, move_bearing, move_distance, compass_flag,
                   spherical, equirectangular, azimuthal, displaced>>
    /\ UNCHANGED <<voidVars, degVars, heightVars, bearingVars, renderVars>>

(***************************************************************************)
(* Earth-shape configuration: what loading earthcurvature.py, hgtread.py   *)
(* and panorama.py computes from the environment.                          *)
(*                                                                         *)
(* A float is <<"fin", num, den>>, the quotient num/den with den > 0, or   *)
(* <<"inf", 1, 1>>, <<"inf", -1, 1>>.                                       *)
(***************************************************************************)
GLOBE == 3959

\* KM (1.60934 kilometres to the mile) * 1000 * 100: centimetres to the mile
KM == 160934

Fin(n) == <<"fin", n, 1>>
PlusInf == <<"inf", 1, 1>>
MinusInf == <<"inf", -1, 1>>

\* math.isinf(f), f > 0, f == 0
isinf(f) == f[1] = "inf"
Positive(f) == f[2] > 0
IsZero(f) == f[1] = "fin" /\ f[2] = 0

\* the settings tried for EARTH_RADIUS_MILES and COEFFICIENT_OF_REFRACTION
EnvRadius == {"unset", "-inf", "0", "3959", "-3959", "GLOBE", "-GLOBE"}
EnvRefraction == {"unset", "0.25", "1"}

\* float(text); <<>> stands for the ValueError of a text that is no number
ParseFloat(text) ==
    CASE text = "inf" -> PlusInf
      [] text = "-inf" -> MinusInf
      [] text = "0" -> Fin(0)
      [] text = "0.0" -> Fin(0)
      [] text = "1" -> Fin(1)
      [] text = "0.25" -> <<"fin", 1, 4>>
      [] text = "3959" -> Fin(3959)
      [] text = "-3959" -> Fin(-3959)
      [] OTHER -> <<>>

\* eval(text) of the names the comment allows: GLOBE or -GLOBE
EvalRadius(text) == IF text = "-GLOBE" THEN Fin(-GLOBE) ELSE Fin(GLOBE)

\* ER = R = RADIUS = float(os.getenv('EARTH_RADIUS_MILES', 'inf')), or the
\* eval of the setting when it does not parse
LoadedRadius(setting) ==
    LET text == IF setting = "unset" THEN "inf" ELSE setting
    IN  IF ParseFloat(text) # <<>> THEN ParseFloat(text) ELSE EvalRadius(text)

\* K = float(os.getenv('COEFFICIENT_OF_REFRACTION') or '0.0')
LoadedRefraction(setting) ==
    ParseFloat(IF setting = "unset" THEN "0.0" ELSE setting)

\* RADIUS > 0 and not math.isinf(RADIUS)
RefractionHonouredWhenFinite(radius) == ~isinf(radius)
RefractionHonoured(radius) == Positive(radius) /\ ~isinf(radius)

\* RADIUS / (1 - K), for 1 - K # 0
EffectiveRadius(radius, k) ==
    IF k[3] - k[2] > 0
    THEN <<"fin", radius[2] * k[3], radius[3] * (k[3] - k[2])>>
    ELSE <<"fin", -(radius[2] * k[3]), radius[3] * (k[2] - k[3])>>

\* hgtread.RADIUS: abs(R) * KM * 1000 metres unless R is 0 or infinite
GeometryRadius(r) ==
    IF ~(isinf(r) \/ IsZero(r)) THEN (Abs(r[2]) * KM) \div r[3]
    ELSE GLOBE * KM

\* the function panorama.move is bound to
SelectMovePositiveInfinity(r) ==
    IF IsZero(r) THEN "azimuthal_equidistant_move"
    ELSE IF r = PlusInf THEN "equirectangular_move"
    ELSE "spherical_move"
SelectMove(r) ==
    IF IsZero(r) THEN "azimuthal_equidistant_move"
    ELSE IF r \in {MinusInf, PlusInf} THEN "equirectangular_move"
    ELSE "spherical_move"

ConfigInit ==
    /\ env_radius \in EnvRadius
    /\ env_refraction \in EnvRefraction
    /\ R = <<>>
    /\ ER = <<>>
    /\ K = <<>>
    /\ RADIUS = 0
    /\ move = "none"
    /\ OCEANFRONT = FALSE
    /\ cpc = "start"

\* import earthcurvature: lines 34-47
LoadEarthcurvature ==
    /\ cpc = "start"
    /\ LET radius == LoadedRadius(env_radius)
           k == LoadedRefraction(env_refraction)
       IN  /\ R' = radius
           /\ IF RefractionHonoured(radius)
              THEN /\ K' = k
                   /\ IF k[2] = k[3]
                      THEN \* ZeroDivisionError: the import fails
                           /\ ER' = radius
                           /\ cpc' = "raised"
                      ELSE /\ ER' = EffectiveRadius(radius, k)
                           /\ cpc' = "earthcurvature"
              ELSE /\ ER' = radius
                   /\ K' = IF ~IsZero(k) THEN Fin(0) ELSE k
                   /\ cpc' = "earthcurvature"
    /\ UNCHANGED <<env_radius, env_refraction, RADIUS, move, OCEANFRONT>>
    /\ UNCHANGED <<panVars, lookVars, paintVars>>
    /\ UNCHANGED <<voidVars, degVars, heightVars, bearingVars, moveVars>>

\* import hgtread: lines 23-26
LoadHgtread ==
    /\ cpc = "earthcurvature"
    /\ RADIUS' = GeometryRadius(R)
    /\ cpc' = "hgtread"
    /\ UNCHANGED <<env_radius, env_refraction, R, ER, K, move, OCEANFRONT>>
    /\ UNCHANGED <<panVars, lookVars, paintVars>>
    /\ UNCHANGED <<voidVars, degVars, heightVars, bearingVars, moveVars>>

\* the body of panorama.py: OCEANFRONT (line 23) and move (lines 434-439)
LoadPanorama ==
    /\ cpc = "hgtread"
    /\ OCEANFRONT' \in BOOLEAN
    /\ move' = SelectMove(R)
    /\ cpc' = "loaded"
    /\ ppc' = "main"
    /\ UNCHANGED <<env_radius, env_refraction, R, ER, K, RADIUS>>
    /\ UNCHANGED <<pan_args, pan_angle, pan_height, pan_elevations>>
    /\ UNCHANGED <<lookVars, paintVars>>
    /\ UNCHANGED <<voidVars, degVars, heightVars, bearingVars, moveVars>>

(***************************************************************************)
(* The render: panorama.panorama and panorama.look                         *)
(*                                                                         *)
(* Positions are whole degrees and a range is a whole number of range      *)
(* units, RangeUnits to the DEGREE_IN_METERS.  The sample spacing `step`   *)
(* is one degree and the columns are a quarter turn apart, so that every   *)
(* point visited and every sine and cosine taken is exact.  The row a      *)
(* sample projects to is an arctangent of its elevation; any row of the    *)
(* rows tried is allowed for it.                                           *)
(***************************************************************************)
RangeUnits == 2
MaxRange == 5

\* CAMERA_HEIGHT, in millimetres
CAMERA_HEIGHT == 1538

\* step = SAMPLE_IN_METERS, in range units
step == RangeUnits

\* d_bearing = math.asin(float(step) / viewrange), in degrees
d_bearing == 90

\* the decimal-degree argument get_height receives for a whole degree
Coord(whole) == <<"decimal", whole * DegreeTicks>>

\* move(latitude, longitude, bearing, distance, compass_bearing)
ApplyMove(name, latitude, longitude, bearing, distance, compass_bearing) ==
    CASE name = "azimuthal_equidistant_move" ->
             azimuthal_equidistant_move(latitude, longitude, bearing,
                                        distance, compass_bearing)
      [] name = "equirectangular_move" ->
             equirectangular_move(latitude, longitude, bearing, distance,
                                  compass_bearing)
      [] OTHER ->
             spherical_move(latitude, longitude, bearing, distance,
                            compass_bearing)

\* the move from this point is one the model computes exactly
MoveExact(name, latitude, longitude, bearing, distance) ==
    /\ bearing % 90 = 0
    /\ CASE name = "azimuthal_equidistant_move" ->
                AzimuthalExact(latitude, longitude, bearing, distance)
         [] name = "equirectangular_move" -> TRUE
         [] OTHER -> SphericalExact(latitude, bearing, distance, FALSE)

RECURSIVE WalkExact(_, _, _, _, _)
WalkExact(name, latitude, longitude, bearing, moves) ==
    IF moves = 0 THEN TRUE
    ELSE /\ MoveExact(name, latitude, longitude, bearing, step \div RangeUnits)
         /\ LET next == ApplyMove(name, latitude, longitude, bearing,
                                  step \div RangeUnits, FALSE)
            IN  WalkExact(name, next[1], next[2], bearing, moves - 1)

\* while angle > bearing - halfspan, with bearing = cartesian(args.bearing)
MoreColumns(args, next_angle) ==
    next_angle > cartesian(args.bearing) - args.span \div 2

FirstAngle(args) == cartesian(args.bearing) + args.span \div 2

\* the directions of the columns of a panorama
ColumnAngles(args) ==
    {a \in (-540)..540 : /\ a <= FirstAngle(args)
                         /\ MoreColumns(args, a)
                         /\ (FirstAngle(args) - a) % d_bearing = 0}

Observers == {<<0, 0>>, <<0, -1>>, <<-1, -1>>}

PanoramaArgs ==
    [bearing : {45, 90, 135, 225}, latitude : {o[1] : o \in Observers},
     longitude : {o[2] : o \in Observers}, distance : 1..MaxRange,
     span : {90, 180}]

\* the arguments whose render the model computes exactly
ExactArgs(name, args) ==
    /\ <<args.latitude, args.longitude>> \in Observers
    /\ \A a \in ColumnAngles(args) :
          WalkExact(name, args.latitude, args.longitude, a,
                    (args.distance + step - 1) \div step)

\* the arguments before panorama is called
NoArgs ==
    [bearing |-> 0, latitude |-> 0, longitude |-> 0, distance |-> 0,
     span |-> 0]

PanoramaInit ==
    /\ pan_args = NoArgs
    /\ pan_angle = 0
    /\ pan_height = 0
    /\ pan_elevations = <<>>
    /\ ppc = "idle"

\* panorama(bearing, latitude, longitude, distance, height, span): lines
\* 106-119, up to the first column
PanoramaBegin ==
    /\ cpc = "loaded"
    /\ ppc = "main"
    /\ \E args \in PanoramaArgs :
          /\ ExactArgs(move, args)
          /\ pan_args' = args
          /\ get_height(Coord(args.latitude), Coord(args.longitude))
          /\ IF hpc' = "raised"
             THEN /\ ppc' = "raised"
                  /\ UNCHANGED <<pan_angle, pan_height>>
             ELSE /\ pan_height' = CAMERA_HEIGHT + 1000 * height'[1]
                  /\ pan_angle' = FirstAngle(args)
                  /\ ppc' = "columns"
    /\ UNCHANGED <<pan_elevations, configVars, lookVars, paintVars>>
    /\ UNCHANGED <<voidVars, degVars, bearingVars, moveVars>>

\* look(angle, north, east, distance, d_travel): lines 203-207
LookBegin ==
    /\ ppc = "columns"
    /\ MoreColumns(pan_args, pan_angle)
    /\ look_angle' = pan_angle
    /\ look_at' = <<pan_args.latitude, pan_args.longitude>>
    /\ traversed' = 0
    /\ look_elevations' = <<>>
    /\ visited' = <<>>
    /\ ppc' = "look"
    /\ UNCHANGED <<pan_args, pan_angle, pan_height, pan_elevations>>
    /\ UNCHANGED <<configVars, paintVars>>
    /\ UNCHANGED <<voidVars, degVars, heightVars, bearingVars, moveVars>>

\* while traversed < distance
LookContinuesAtRange(so_far, distance) == so_far <= distance
LookContinues(so_far, distance) == so_far < distance

\* one turn of look's loop: lines 209-213
LookStep ==
    /\ ppc = "look"
    /\ LookContinues(traversed, pan_args.distance)
    /\ get_height(Coord(look_at[1]), Coord(look_at[2]))
    /\ IF hpc' = "raised"
       THEN /\ ppc' = "raised"
            /\ UNCHANGED lookVars
       ELSE /\ look_elevations' = Append(look_elevations, height'[1])
            /\ visited' = Append(visited, look_at)
            /\ look_at' = ApplyMove(move, look_at[1], look_at[2], look_angle,
                                    step \div RangeUnits, FALSE)
            /\ traversed' = traversed + step
            /\ UNCHANGED <<look_angle, ppc>>
    /\ UNCHANGED <<pan_args, pan_angle, pan_height, pan_elevations>>
    /\ UNCHANGED <<configVars, paintVars>>
    /\ UNCHANGED <<voidVars, degVars, bearingVars, moveVars>>

\* nearest and farthest, the initializers for bad pixels
nearest == <<0, -horizon, image_height - 1>>
DefaultFarthest == <<0, 0, horizon - 1>>

\* lines 136-146: every sample but the observer's gets its projected row
Projected(ray, rows) ==
    [i \in 1..Len(ray) |->
        IF i = 1 THEN ray[i]
        ELSE <<ray[i][raw], rows[i], horizon - 1 - rows[i]>>]

\* the rows tried for a sample of a render
PanoramaRows == {-2, 1}

\* look returns; the rest of the column's turn: lines 133-148
ColumnDone ==
    /\ ppc = "look"
    /\ ~LookContinues(traversed, pan_args.distance)
    /\ \E rows \in [1..Len(look_elevations) -> PanoramaRows] :
          pan_elevations' =
              Append(pan_elevations,
                     Projected(correct_for_no_data(
                                   [i \in 1..Len(look_elevations) |->
                                       <<look_elevations[i]>>
                                           \o SubSeq(nearest, y_cartesian,
                                                     Len(nearest))],
                                   raw, DefaultFarthest),
                               rows))
    /\ pan_angle' = pan_angle - d_bearing
    /\ ppc' = "columns"
    /\ UNCHANGED <<pan_args, pan_height>>
    /\ UNCHANGED <<configVars, lookVars, paintVars>>
    /\ UNCHANGED <<voidVars, degVars, heightVars, bearingVars, moveVars>>

(***************************************************************************)
(* The rasterizer: lines 149-197 of panorama.panorama                      *)
(*                                                                         *)
(* A pixel is <<red, green, blue, alpha>>.  The image is a function from   *)
(* the column to a function from the row to the pixel; row 0 is the top.   *)
(***************************************************************************)
WHITE == 255
OPAQUE == 255
COMPLETELY == 255
DARKEST == 10
BLACK == 0
BLACKPIXEL == <<BLACK, BLACK, BLACK, OPAQUE>>
WHITEPIXEL == <<WHITE, WHITE, WHITE, OPAQUE>>
BLUEPIXEL == <<BLACK, BLACK, COMPLETELY, OPAQUE>>
SkyPixel == <<128, 128, 255, 255>>

\* (closer, current, farther) = (0, 1, 2): positions within `context`
closer == 1
current == 2
farther == 3

\* None, in the end-of-ray element [None, None, image_height]: a number
\* that is no elevation and no row
None == -99999
EndOfRay == <<None, None, image_height>>

\* list[i], counting from 0 as the source does
Item(list, i) == list[i + 1]

\* Image.new('RGBA', (width, image_height), (128, 128, 255, 255))
NewImage(width) ==
    [col \in 0..(width - 1) |-> [row \in 0..(image_height - 1) |-> SkyPixel]]

InImage(img, col, row) ==
    /\ col \in DOMAIN img
    /\ row >= 0
    /\ row < image_height

\* getpixel(image, point): <<>> stands for None, outside the image
getpixel(img, col, row) ==
    IF InImage(img, col, row) THEN img[col][row] ELSE <<>>

\* gray = int(depth / divider) + DARKEST, divider = len(pointlist) / 245.0
Gray(at, length) ==
    LET gray == Trunc(at * (WHITE - DARKEST), length) + DARKEST
    IN  <<gray, gray, gray, OPAQUE>>

\* the sample is drawn as water
IsOcean(sample, oceanfront) == oceanfront /\ sample[raw] = 0

\* for plot in range(y + 1, context[closer][y_image] + 1)
FillRowsShort(top, closer_row) == (top + 1)..(closer_row - 1)
FillRows(top, closer_row) == (top + 1)..closer_row

\* the top pixel is the ridge's: y < context[farther][y_image]
IsRidgeOrLevel(top, farther_row) == top <= farther_row
IsRidge(top, farther_row) == top < farther_row

\* which branch the visit of list[at] takes: lines 166 and 170
BranchByRowOnly(ctx) ==
    IF ctx[current][y_image] = ctx[closer][y_image] THEN "carry"
    ELSE "paint"
Branch(ctx) ==
    IF ctx[current][y_image] = ctx[closer][y_image] THEN "carry"
    ELSE IF ctx[current][y_cartesian] > ctx[closer][y_cartesian] THEN "paint"
    ELSE "hidden"

\* the colours of a painted sample: lines 171-180
FillColorGrayOnly(ctx, at, length, oceanfront) == Gray(at, length)
FillColor(ctx, at, length, oceanfront) ==
    IF IsOcean(ctx[current], oceanfront) THEN BLUEPIXEL ELSE Gray(at, length)
RidgeColor(ctx, oceanfront) ==
    IF IsOcean(ctx[current], oceanfront) THEN BLUEPIXEL ELSE BLACKPIXEL

\* what the visit of list[at] writes in column col: lines 183-196.
\* top is <<>> or <<row, pixel>>; rows is the set of rows filled with color
Visit(list, at, col, img, oceanfront) ==
    LET ctx == SubSeq(list, at, at + 2)      \* pointlist[depth - 1:depth + 2]
        color == FillColor(ctx, at, Len(list), oceanfront)
        ridgecolor == RidgeColor(ctx, oceanfront)
        top == IF ctx[current][y_image] > 0 THEN ctx[current][y_image] ELSE 0
    IN  IF Branch(ctx) # "paint"
        THEN [branch |-> Branch(ctx), col |-> col, top |-> <<>>, rows |-> {},
              color |-> <<>>]
        ELSE [branch |-> "paint", col |-> col,
              top |-> IF IsRidge(top, ctx[farther][y_image])
                      THEN <<top, ridgecolor>>
                      ELSE IF top > ctx[farther][y_image]
                              \/ getpixel(img, col, top) # ridgecolor
                           THEN <<top, color>>
                           ELSE <<>>,
              rows |-> FillRows(top, ctx[closer][y_image]),
              color |-> color]

\* putpixel, ignoring anything outside the image, for every write of a visit
PutPixels(img, v) ==
    [c \in DOMAIN img |->
        IF c # v.col THEN img[c]
        ELSE [row \in 0..(image_height - 1) |->
                 IF v.top # <<>> /\ v.top[1] = row THEN v.top[2]
                 ELSE IF row \in v.rows THEN v.color
                 ELSE img[c][row]]]

\* no visit yet
NotPainted ==
    [branch |-> "none", col |-> 0, top |-> <<>>, rows |-> {}, color |-> <<>>]

PaintInit ==
    /\ image = NewImage(0)
    /\ pointlist = <<>>
    /\ paint_x = 0
    /\ paint_depth = 0
    /\ context = <<>>
    /\ painted = NotPainted

\* lines 149-152: the image is created once every column is sampled
ImageNew ==
    /\ ppc = "columns"
    /\ ~MoreColumns(pan_args, pan_angle)
    /\ image' = NewImage(Len(pan_elevations))
    /\ paint_x' = 0
    /\ ppc' = "paint"
    /\ UNCHANGED <<pointlist, paint_depth, context, painted>>
    /\ UNCHANGED <<pan_args, pan_angle, pan_height, pan_elevations>>
    /\ UNCHANGED <<configVars, lookVars>>
    /\ UNCHANGED <<voidVars, degVars, heightVars, bearingVars, moveVars>>

\* lines 153-162: the working list of the next column
PaintColumn ==
    /\ ppc = "paint"
    /\ paint_x < Len(pan_elevations)
    /\ pointlist' = <<Item(Item(pan_elevations, paint_x), 0)>>
                        \o Item(pan_elevations, paint_x) \o <<EndOfRay>>
    /\ paint_depth' = Len(pointlist') - 2
    /\ context' = <<>>
    /\ painted' = NotPainted
    /\ ppc' = "depth"
    /\ UNCHANGED <<image, paint_x>>
    /\ UNCHANGED <<pan_args, pan_angle, pan_height, pan_elevations>>
    /\ UNCHANGED <<configVars, lookVars>>
    /\ UNCHANGED <<voidVars, degVars, heightVars, bearingVars, moveVars>>

\* lines 164-196: one turn of the loop over depth
PaintDepth ==
    /\ ppc = "depth"
    /\ paint_depth >= 1
    /\ LET v == Visit(pointlist, paint_depth, paint_x, image, OCEANFRONT)
       IN  /\ context' = SubSeq(pointlist, paint_depth, paint_depth + 2)
           /\ painted' = v
           /\ pointlist' = IF v.branch = "carry"
                           THEN [pointlist EXCEPT ![paint_depth + 1] =
                                    Item(pointlist, paint_depth + 1)]
                           ELSE pointlist
           /\ image' = IF v.branch = "paint" THEN PutPixels(image, v)
                       ELSE image
    /\ paint_depth' = paint_depth - 1
    /\ UNCHANGED <<paint_x, ppc>>
    /\ UNCHANGED <<pan_args, pan_angle, pan_height, pan_elevations>>
    /\ UNCHANGED <<configVars, lookVars>>
    /\ UNCHANGED <<voidVars, degVars, heightVars, bearingVars, moveVars>>

\* the loop over depth is over: on to the next column
ColumnPainted ==
    /\ ppc = "depth"
    /\ paint_depth < 1
    /\ paint_x' = paint_x + 1
    /\ ppc' = "paint"
    /\ UNCHANGED <<image, pointlist, paint_depth, context, painted>>
    /\ UNCHANGED <<pan_args, pan_angle, pan_height, pan_elevations>>
    /\ UNCHANGED <<configVars, lookVars>>
    /\ UNCHANGED <<voidVars, degVars, heightVars, bearingVars, moveVars>>

\* panorama.show(): line 197
Show ==
    /\ ppc = "paint"
    /\ paint_x >= Len(pan_elevations)
    /\ ppc' = "shown"
    /\ UNCHANGED <<pan_args, pan_angle, pan_height, pan_elevations>>
    /\ UNCHANGED <<configVars, lookVars, paintVars>>
    /\ UNCHANGED <<voidVars, degVars, heightVars, bearingVars, moveVars>>

\* the rows a sample of a column about to be painted can have: below the
\* image, below and above the horizon, the top row, above the image
ProjectedRows == {-182, -2, 1, 179, 181}
MaxRay == 4

\* the raw elevations along a ray: sea all along, ground all along, or sea
\* and ground by turns
RawPatterns == {<<0, 0>>, <<0, 50>>, <<50, 0>>, <<50, 50>>}
PatternRaw(pattern, i) == pattern[1 + (i % 2)]

\* the rays of n elements as the sampling leaves them: the observer's
\* element, then the projected samples
RECURSIVE SampledRays(_, _)
SampledRays(n, pattern) ==
    IF n = 1
    THEN {<<<<PatternRaw(pattern, 1), nearest[y_cartesian], nearest[y_image]>>>>}
    ELSE {Append(r, <<PatternRaw(pattern, n), row, horizon - 1 - row>>) :
             r \in SampledRays(n - 1, pattern), row \in ProjectedRows}

\* the second column of a two-column panorama: a slope of bare ground
RECURSIVE Slope(_)
Slope(n) ==
    IF n = 1 THEN <<<<50, nearest[y_cartesian], nearest[y_image]>>>>
    ELSE Append(Slope(n - 1), <<50, n, horizon - 1 - n>>)

\* the rasterizer's state after the last column is sampled
RasterInit ==
    /\ \E n \in 1..MaxRay, pattern \in RawPatterns :
          \E r \in SampledRays(n, pattern) :
             \E wide \in (IF pattern = <<50, 50>> THEN BOOLEAN ELSE {FALSE}) :
                pan_elevations = IF wide THEN <<r, Slope(n)>> ELSE <<r>>
    /\ OCEANFRONT \in BOOLEAN
    /\ image = NewImage(Len(pan_elevations))
    /\ pointlist = <<>>
    /\ paint_x = 0
    /\ paint_depth = 0
    /\ context = <<>>
    /\ painted = NotPainted
    /\ ppc = "paint"
    /\ pan_args = NoArgs
    /\ pan_angle = 0
    /\ pan_height = 0
    /\ env_radius = "unset"
    /\ env_refraction = "unset"
    /\ R = PlusInf
    /\ ER = PlusInf
    /\ K = Fin(0)
    /\ RADIUS = GeometryRadius(PlusInf)
    /\ move = SelectMove(PlusInf)
    /\ cpc = "loaded"
    /\ LookIdle

(***************************************************************************)
(* Specifications                                                          *)
(***************************************************************************)
InitVoid == VoidInit /\ DegreeIdle /\ HeightIdle /\ BearingIdle /\ MoveIdle
                /\ RenderIdle
NextVoid == CorrectForNoData
SpecVoid == InitVoid /\ [][NextVoid]_vars

InitDegree == DegreeInit /\ VoidIdle /\ HeightIdle /\ BearingIdle /\ MoveIdle
                /\ RenderIdle
NextDegree == DegreeNew \/ DecimalOf \/ DegreeAdd
SpecDegree == InitDegree /\ [][NextDegree]_vars

InitHeight == HeightInit /\ VoidIdle /\ DegreeIdle /\ BearingIdle /\ MoveIdle
                /\ RenderIdle
NextHeight == GetHeight
SpecHeight == InitHeight /\ [][NextHeight]_vars

InitBearing == BearingInit /\ VoidIdle /\ DegreeIdle /\ HeightIdle /\ MoveIdle
                /\ RenderIdle
NextBearing == Cartesian \/ Compass
SpecBearing == InitBearing /\ [][NextBearing]_vars

InitMove == MoveInit /\ VoidIdle /\ DegreeIdle /\ HeightIdle /\ BearingIdle
                /\ RenderIdle
NextMove ==
    \/ SphericalMove \/ EquirectangularMove \/ AzimuthalEquidistantMove
    \/ AzimuthalDisplace \/ MarcherMove
SpecMove == InitMove /\ [][NextMove]_vars

InitPanorama == ConfigInit /\ PanoramaInit /\ LookIdle /\ PaintInit
                /\ HeightInit /\ VoidIdle /\ DegreeIdle /\ BearingIdle
                /\ MoveIdle
NextPanorama ==
    \/ LoadEarthcurvature \/ LoadHgtread \/ LoadPanorama
    \/ PanoramaBegin \/ LookBegin \/ LookStep \/ ColumnDone
    \/ ImageNew \/ PaintColumn \/ PaintDepth \/ ColumnPainted \/ Show
SpecPanorama == InitPanorama /\ [][NextPanorama]_vars


InitRaster == RasterInit /\ HeightIdle /\ VoidIdle /\ DegreeIdle
              /\ BearingIdle /\ MoveIdle
NextRaster == PaintColumn \/ PaintDepth \/ ColumnPainted \/ Show
SpecRaster == InitRaster /\ [][NextRaster]_vars

(***************************************************************************)
(* Claims about the void interpolator                                      *)
(***************************************************************************)
RawOf(ray) == [j \in 1..Len(ray) |-> ray[j][raw]]

\* v is a nearest integer to num/den (den > 0)
IsNearest(v, num, den) == 2 * Abs(v * den - num) <= den

\* positions k+1..k+n of the entry ray are a maximal void run after valid k
VoidRunAfter(k, n) ==
    /\ k >= 1 /\ n >= 1 /\ k + n <= Len(raw_in)
    /\ raw_in[k][raw] # VOID
    /\ \A j \in (k + 1)..(k + n) : raw_in[j][raw] = VOID

\* C1: a void run of length n between a valid sample at k and the previous
\* good (farther) valid sample is filled with the evenly spaced, rounded
\* values current + i*(previous_good - current)/(n+1), i = 1..n; the
\* docstring ray [13, void, void, void, 26] becomes [13, 16, 20, 23, 26].
C1_Interpolates ==
    vpc = "done" =>
        /\ \A k \in 1..Len(raw_in), n \in 1..Len(raw_in) :
              (VoidRunAfter(k, n) /\ k + n + 1 <= Len(raw_in)
                  /\ raw_in[k + n + 1][raw] # VOID) =>
                 \A i \in 1..n :
                    IsNearest(elevations[k + i][raw],
                              raw_in[k][raw] * (n + 1)
                                  + i * (raw_in[k + n + 1][raw] - raw_in[k][raw]),
                              n + 1)
        /\ RawOf(raw_in) = <<13, VOID, VOID, VOID, 26>> =>
              RawOf(elevations) = <<13, 16, 20, 23, 26>>

C1_Witness ==
    /\ vpc = "done"
    /\ RawOf(raw_in) = <<13, VOID, VOID, VOID, 26>>
    /\ RawOf(elevations) = <<13, 16, 20, 23, 26>>

\* C2: a void run at the farthest end of the ray is filled against the
\* caller's default farthest[raw]: slot i of the run becomes
\* round(current + i*(default - current)/(n+1)); [13, void, void] with
\* default 0 becomes [13, 9, 4].
C2_FarEndUsesDefault ==
    vpc = "done" =>
        /\ \A k \in 1..Len(raw_in), n \in 1..Len(raw_in) :
              (VoidRunAfter(k, n) /\ k + n = Len(raw_in)) =>
                 \A i \in 1..n :
                    IsNearest(elevations[k + i][raw],
                              raw_in[k][raw] * (n + 1)
                                  + i * (farthest[raw] - raw_in[k][raw]),
                              n + 1)
        /\ (RawOf(raw_in) = <<13, VOID, VOID>> /\ farthest[raw] = 0) =>
              RawOf(elevations) = <<13, 9, 4>>

C2_Witness ==
    /\ vpc = "done"
    /\ RawOf(raw_in) = <<13, VOID, VOID>>
    /\ farthest[raw] = -7
    /\ RawOf(elevations) = <<13, 6, 0>>

(***************************************************************************)
(* Claims about Degree arithmetic                                          *)
(***************************************************************************)
\* C3: adding k = +SAMPLE_SECONDS or -SAMPLE_SECONDS to a sample-aligned
\* Degree gives the Degree of the same angle plus k arc-seconds
\* (3600*d + 60*m + s moves by exactly k), whatever carries happen.
C3_AddMovesAngleBySeconds ==
    [][dpc' = "added" =>
          TotalSeconds(deg') = TotalSeconds(deg) + seconds']_vars

\* no two nonzero components of the triple have opposite signs
OneSign(g) ==
    /\ ~(g.d > 0 /\ (g.m < 0 \/ g.s < 0))
    /\ ~(g.d < 0 /\ (g.m > 0 \/ g.s > 0))
    /\ ~(g.m > 0 /\ g.s < 0)
    /\ ~(g.m < 0 /\ g.s > 0)

\* C4: every Degree, as constructed and after any walk of sample-sized
\* additions, has |minutes| < 60, |seconds| < 60 and components of one sign.
C4_TripleWellFormed ==
    dpc \in {"made", "added"} =>
        /\ Abs(deg.m) < 60
        /\ Abs(deg.s) < 60
        /\ OneSign(deg)

\* C9: decimal(dms(t)) is within one sample spacing of t, and the seconds
\* of dms(t) are a multiple of SAMPLE_SECONDS, for every decimal angle t.
C9_DmsRoundTrip ==
    (dpc = "made" /\ dinput[1] = "decimal") =>
        /\ deg.s % SAMPLE_SECONDS = 0
        /\ back # <<>> => Abs(back[1] - dinput[2]) < SAMPLE_SECONDS * TICKS

\* a negative angle with integer part 0 that dms had to round
C9_Witness ==
    /\ dpc = "made"
    /\ dinput = <<"decimal", -(58 * TICKS + 1)>>
    /\ AsTuple(deg) = <<0, 0, -60>>
    /\ back = <<-(60 * TICKS)>>

(***************************************************************************)
(* Claims about the tile locator and reader                                *)
(***************************************************************************)
\* the last call found its tile and read a sample
Located == calls > 0 /\ located.matched # <<>>

\* the angle of the coordinate as dms quantises it, in arc-seconds
QuantisedSeconds(value) ==
    TotalSeconds(Degree(<<"decimal", degrees(value)>>))

\* sample steps from the tile's north edge down to the latitude
RowFromNorthEdge ==
    (TileNorthEdge(located.filebase) * DEGREE_IN_SECONDS
        - QuantisedSeconds(arg_north)) \div SAMPLE_SECONDS

\* sample steps from the tile's west edge to the longitude
ColumnFromWestEdge ==
    (QuantisedSeconds(arg_east)
        - TileWestEdge(located.filebase) * DEGREE_IN_SECONDS) \div SAMPLE_SECONDS

\* C5: the byte offset get_height seeks to is 2*(row*SAMPLES_PER_ROW + col),
\* row counted from the tile's north edge down to the latitude and col from
\* its west edge to the longitude, for all four sign combinations.
C5_OffsetIsRowMajorFromNorthWest ==
    Located =>
        seek_offset = 2 * (RowFromNorthEdge * SAMPLES_PER_ROW + ColumnFromWestEdge)

\* C6: get_hgt_file names the one-degree tile that contains the point:
\* 'N'/'E' + integer part for non-negative coordinates, 'S'/'W' +
\* (|integer part| + 1) for negative ones, so that the named southwest corner
\* (S, W) satisfies S <= latitude <= S+1 and W <= longitude <= W+1.
C6_NamedTileContainsPoint ==
    calls > 0 =>
        LET latitude == degrees(arg_north)
            longitude == degrees(arg_east)
            name == located.filebase
            S == TileNorthEdge(name) - 1
            W == TileWestEdge(name)
        IN  /\ name[1] = (IF latitude >= 0 THEN "N" ELSE "S")
            /\ name[3] = (IF longitude >= 0 THEN "E" ELSE "W")
            /\ name[2] = (IF latitude >= 0 THEN Trunc(latitude, DegreeTicks)
                          ELSE Abs(Trunc(latitude, DegreeTicks)) + 1)
            /\ name[4] = (IF longitude >= 0 THEN Trunc(longitude, DegreeTicks)
                          ELSE Abs(Trunc(longitude, DegreeTicks)) + 1)
            /\ S * DegreeTicks <= latitude /\ latitude <= (S + 1) * DegreeTicks
            /\ W * DegreeTicks <= longitude /\ longitude <= (W + 1) * DegreeTicks

\* a latitude exactly on a negative whole degree, a longitude between 0 and -1
C6_Witness ==
    /\ calls > 0
    /\ arg_north = <<"decimal", -DegreeTicks>>
    /\ arg_east = <<"decimal", -(58 * TICKS + 1)>>
    /\ located.filebase = <<"S", 2, "W", 1>>

\* C10: a tile file is opened only when no handle for its path is cached:
\* each path is given to open() at most once, and every file object open()
\* returned is the one OPEN_FILES keeps for its path.
C10_OpenedOnlyWhenNotCached ==
    /\ \A i, j \in 1..Len(opened) : opened[i] = opened[j] => i = j
    /\ \A k \in 1..Len(opened) : OPEN_FILES[opened[k]] = k

(***************************************************************************)
(* Claims about bearings and movement                                      *)
(***************************************************************************)
\* C7: a move due north (compass bearing 0) by k * DEGREE_IN_METERS returns
\* (latitude + k, longitude) under spherical_move, equirectangular_move and
\* azimuthal_equidistant_move alike, from every start.
C7_NorthwardMoveAgrees ==
    (from # <<>> /\ move_bearing = 0 /\ compass_flag) =>
        LET expected == <<from[1] + move_distance, from[2]>>
        IN  /\ spherical # <<>> => spherical = expected
            /\ equirectangular # <<>> => equirectangular = expected
            /\ azimuthal # <<>> => azimuthal = expected

\* x reduced modulo 360 into (-180, 180]
Normalised(x) == CHOOSE y \in (-179)..180 : (y - x) % 360 = 0

\* C8: cartesian(x) lies in (-180, 180] and cartesian(cartesian(x)) is x
\* reduced modulo 360 into (-180, 180], so compass = cartesian inverts it;
\* cartesian(0) = 90, cartesian(-90) = 180, cartesian(180) = -90,
\* cartesian(270) = 180.
C8_CartesianInvolution ==
    /\ bpc \in {"once", "twice"} =>
          /\ converted_once > -180 /\ converted_once <= 180
          /\ bearing_in = 0 => converted_once = 90
          /\ bearing_in = -90 => converted_once = 180
          /\ bearing_in = 180 => converted_once = -90
          /\ bearing_in = 270 => converted_once = 180
    /\ bpc = "twice" => converted_twice = Normalised(bearing_in)

C8_Witness ==
    /\ bpc = "twice"
    /\ bearing_in = -90
    /\ converted_once = 180
    /\ converted_twice = -90

(***************************************************************************)
(* Claims about the Earth-shape configuration                              *)
(***************************************************************************)
Loaded == cpc = "loaded"

FiniteNonZero(f) == f[1] = "fin" /\ f[2] # 0

\* C11: the movement strategy is fixed at module load by R alone: R = 0
\* gives azimuthal_equidistant_move, R = +-infinity equirectangular_move,
\* any other R (finite positive or finite negative) spherical_move; the
\* geometry radius is |R| in meters for finite nonzero R and the globe's
\* otherwise; once loaded, no step of a render changes the selection.
C11_StrategyFixedByRadius ==
    /\ [](Loaded =>
            /\ (R = <<"fin", 0, 1>>) => move = "azimuthal_equidistant_move"
            /\ (R[1] = "inf") => move = "equirectangular_move"
            /\ FiniteNonZero(R) =>
                   /\ move = "spherical_move"
                   /\ RADIUS * R[3] = Abs(R[2]) * KM
            /\ ~FiniteNonZero(R) => RADIUS = GLOBE * KM)
    /\ [][Loaded => (move' = move /\ R' = R /\ RADIUS' = RADIUS)]_vars

C11_Witness ==
    /\ Loaded
    /\ ppc = "shown"
    /\ env_radius = "-inf"
    /\ R = <<"inf", -1, 1>>
    /\ move = "equirectangular_move"
    /\ RADIUS = GLOBE * KM

\* C12: once the configuration is loaded, K is nonzero only for a finite
\* positive radius: for a zero, negative or infinite radius K is 0 and ER is
\* the configured radius; for a finite positive radius ER = RADIUS / (1 - K).
C12_RefractionOnlyForPositiveFiniteRadius ==
    cpc \in {"earthcurvature", "hgtread", "loaded"} =>
        IF R[1] = "fin" /\ R[2] > 0
        THEN /\ K[2] # K[3]
             /\ ER[1] = "fin"
             /\ ER[2] * R[3] * (K[3] - K[2]) = R[2] * K[3] * ER[3]
        ELSE /\ K[2] = 0
             /\ ER = R

C12_Witness ==
    /\ Loaded
    /\ env_radius = "-3959"
    /\ env_refraction = "0.25"
    /\ R = <<"fin", -3959, 1>>
    /\ K = <<"fin", 0, 1>>
    /\ ER = R

(***************************************************************************)
(* Claims about the ray marcher and the missing tile                       *)
(***************************************************************************)
\* what reading the tile at a whole-degree point gives
ElevationRead(point) ==
    LET north == Coord(point[1])
        east == Coord(point[2])
        f == get_hgt_file(north, east)
    IN  unpack_sample(ReadTwoBytes(f.matched,
            north_offset(Degree(<<"decimal", degrees(north)>>), f.d_lat)
                + east_offset(Degree(<<"decimal", degrees(east)>>), f.d_lon)))

\* look is about to return: its loop condition is false
LookReturns == ppc = "look" /\ traversed >= pan_args.distance

\* C13: look with d_travel > 0 terminates (every turn of its loop adds
\* d_travel to the distance traversed, and no turn starts once the range is
\* reached), and the list it returns holds the elevations sampled after
\* 0, 1, 2, ... moves of d_travel along the bearing: element 0 at the
\* observer's position, element i at the point reached by i applications of
\* the active move function, ceil(distance * 1000 / d_travel) in all.
C13_LookSamplesEveryStep ==
    /\ [](LookReturns =>
            /\ Len(look_elevations)
                   = (pan_args.distance + step - 1) \div step
            /\ Len(visited) = Len(look_elevations)
            /\ visited[1] = <<pan_args.latitude, pan_args.longitude>>
            /\ \A i \in 1..(Len(visited) - 1) :
                   visited[i + 1] = ApplyMove(move, visited[i][1],
                                              visited[i][2], look_angle,
                                              step \div RangeUnits, FALSE)
            /\ \A i \in 1..Len(visited) :
                   look_elevations[i] = ElevationRead(visited[i]))
    /\ [](ppc = "look" =>
            /\ traversed = Len(look_elevations) * step
            /\ traversed < pan_args.distance + step)
    /\ [][ppc = "look" =>
            \/ ppc' # "look"
            \/ /\ traversed < pan_args.distance
               /\ traversed' = traversed + step
               /\ Len(look_elevations') = Len(look_elevations) + 1]_vars

C13_Witness ==
    /\ LookReturns
    /\ move = "spherical_move"
    /\ look_angle = 90
    /\ visited = <<<<0, 0>>, <<1, 0>>, <<2, 0>>>>
    /\ Len(look_elevations) = 3

\* no file under DEM_DATA, at any of the three depths, has this name
NoTileFor(filebase) ==
    ~\E path \in DemFiles : Len(path) <= 3 /\ path[Len(path)] = filebase

\* C14: when no tile file matches the coordinate of a sample, the error
\* get_hgt_file raises is not caught anywhere below panorama's caller: the
\* render stops at that sample, no further sample is read, no pixel is
\* painted and no image is shown.
C14_MissingTileAbortsRender ==
    /\ []((calls > 0 /\ NoTileFor(located.filebase)) =>
            /\ hpc = "raised"
            /\ ppc = "raised"
            /\ image = NewImage(0))
    /\ [][hpc # "raised" /\ ppc # "raised"]_vars

C14_Witness ==
    /\ ppc = "raised"
    /\ hpc = "raised"
    /\ visited = <<<<0, -1>>>>
    /\ located.filebase = <<"S", 2, "W", 2>>
    /\ Len(pan_elevations) = 0
    /\ image = NewImage(0)

(***************************************************************************)
(* Claims about the equirectangular move and the tile locator's result     *)
(***************************************************************************)
\* the move is due east (1), due west (-1) or neither (0), for a bearing in
\* either convention
Eastward ==
    LET b == move_bearing % 360
    IN  IF compass_flag THEN (IF b = 90 THEN 1 ELSE IF b = 270 THEN -1 ELSE 0)
        ELSE (IF b = 0 THEN 1 ELSE IF b = 180 THEN -1 ELSE 0)

\* the move is due north (1), due south (-1) or neither (0)
Northward ==
    LET b == move_bearing % 360
    IN  IF compass_flag THEN (IF b = 0 THEN 1 ELSE IF b = 180 THEN -1 ELSE 0)
        ELSE (IF b = 90 THEN 1 ELSE IF b = 270 THEN -1 ELSE 0)

\* C15: under equirectangular_move longitude behaves like latitude: from
\* every latitude, k * DEGREE_IN_METERS due east or west changes the
\* longitude by exactly +k or -k degrees and leaves the latitude alone, as a
\* move due north or south changes the latitude by k; from (60, -110) due
\* west by one degree-in-meters gives (60, -111).
C15_EquirectangularLongitudeLikeLatitude ==
    equirectangular # <<>> =>
        /\ Eastward # 0 =>
               equirectangular = <<from[1], from[2] + Eastward * move_distance>>
        /\ Northward # 0 =>
               equirectangular = <<from[1] + Northward * move_distance, from[2]>>

C15_Witness ==
    /\ from = <<60, -110>>
    /\ move_bearing = -90
    /\ compass_flag
    /\ move_distance = 1
    /\ equirectangular = <<60, -111>>

\* the southwest corner a tile is named for
NamedSouth(filebase) ==
    IF filebase[1] = "N" THEN filebase[2] ELSE -filebase[2]
NamedWest(filebase) ==
    IF filebase[3] = "E" THEN filebase[4] ELSE -filebase[4]

\* the path found and the deltas: -SAMPLE_SECONDS of latitude north of the
\* equator and +SAMPLE_SECONDS south of it, +SAMPLE_SECONDS of longitude
PathAndDeltas ==
    /\ located.matched \in DemFiles
    /\ located.matched[Len(located.matched)] = located.filebase
    /\ located.d_lat = (IF degrees(arg_north) < 0 THEN 3 ELSE -3)
    /\ located.d_lon = 3

\* C16 as claimed: with the path and the deltas, get_hgt_file returns the
\* integer latitude and longitude of the southwest corner of the tile.
C16_ReturnsSouthwestCorner ==
    Located =>
        /\ PathAndDeltas
        /\ located.lat = NamedSouth(located.filebase)
        /\ located.lon = NamedWest(located.filebase)

\* C16 as amended: the latitude and longitude returned are those of the
\* tile's first sample, its northwest corner: one degree north of the
\* southwest corner the tile is named for, at the same longitude.
C16_ReturnsFirstSample ==
    Located =>
        /\ PathAndDeltas
        /\ located.lat = NamedSouth(located.filebase) + 1
        /\ located.lon = NamedWest(located.filebase)

C16_Witness ==
    /\ Located
    /\ arg_north = <<"decimal", -((DEGREE_IN_SECONDS + 900) * TICKS)>>
    /\ arg_east = <<"decimal", -(900 * TICKS)>>
    /\ located.filebase = <<"S", 2, "W", 1>>
    /\ located.lat = -1
    /\ located.lon = -1
    /\ located.d_lat = 3

(***************************************************************************)
(* Claims about the rasterizer                                             *)
(***************************************************************************)
\* a sample is about to be visited: the loop over depth has a turn left
Visiting == ppc = "depth" /\ paint_depth >= 1

\* the sample about to be visited and its neighbours in the working list
NextNearer == Item(pointlist, paint_depth - 1)
Sample == Item(pointlist, paint_depth)
FartherNeighbour == Item(pointlist, paint_depth + 1)

\* the sample about to be visited is visible: on another row than the
\* next-nearer sample and higher in the frame
Visible ==
    /\ Sample[y_image] # NextNearer[y_image]
    /\ Sample[y_cartesian] > NextNearer[y_cartesian]

\* its row clamped to the top of the image, its shade and its ridge colour
TopRow == IF Sample[y_image] > 0 THEN Sample[y_image] ELSE 0
Water == OCEANFRONT /\ Sample[raw] = 0
Shade ==
    IF Water THEN BLUEPIXEL
    ELSE LET gray == DARKEST
                       + ((paint_depth * (WHITE - DARKEST)) \div Len(pointlist))
         IN  <<gray, gray, gray, OPAQUE>>
RidgeShade == IF Water THEN BLUEPIXEL ELSE BLACKPIXEL
ImageRows == 0..(image_height - 1)

\* C17: walking a column from the farthest sample to the nearest, a sample
\* changes the image only if its projected row is strictly higher than the
\* next-nearer sample's; a sample on the next-nearer sample's row writes
\* nothing and its place in the working list is taken by its farther
\* neighbour, which is therefore the farther neighbour the next-nearer
\* sample is compared against; a lower sample writes nothing and leaves the
\* working list alone.
C17_VisibilityRule ==
    /\ [][Visiting =>
            /\ image' # image => Sample[y_cartesian] > NextNearer[y_cartesian]
            /\ Sample[y_image] = NextNearer[y_image] =>
                   /\ image' = image
                   /\ Item(pointlist', paint_depth) = FartherNeighbour
                   /\ \A i \in 1..Len(pointlist) :
                         i # paint_depth + 1 => pointlist'[i] = pointlist[i]
                   /\ paint_depth' = paint_depth - 1
            /\ Sample[y_image] # NextNearer[y_image] =>
                   pointlist' = pointlist
            /\ Sample[y_cartesian] < NextNearer[y_cartesian] =>
                   image' = image]_vars
    /\ []((Visiting /\ painted.branch = "carry") =>
            FartherNeighbour = context[farther])

C17_Witness ==
    /\ Visiting
    /\ painted.branch = "carry"
    /\ context[farther] # EndOfRay
    /\ context[current][y_image] = context[closer][y_image]
    /\ FartherNeighbour = context[farther]
    /\ Sample = context[closer]

C19_RidgeMarking ==
    [][(Visiting /\ Visible /\ TopRow \in ImageRows) =>
          /\ TopRow < FartherNeighbour[y_image] =>
                /\ image'[paint_x][TopRow] = RidgeShade
                /\ \A row \in ImageRows \ {TopRow} :
                      image'[paint_x][row] \in {image[paint_x][row], Shade}
                /\ \A row \in ImageRows :
                      (row > TopRow /\ row <= NextNearer[y_image]) =>
                          image'[paint_x][row] = Shade
          /\ TopRow >= FartherNeighbour[y_image] =>
                image'[paint_x][TopRow] =
                    IF TopRow = FartherNeighbour[y_image]
                          /\ image[paint_x][TopRow] = RidgeShade
                    THEN RidgeShade
                    ELSE Shade]_vars

C19_Witness ==
    /\ painted.branch = "paint"
    /\ painted.top # <<>>
    /\ painted.top[2] = BLACKPIXEL
    /\ context[farther] # EndOfRay
    /\ painted.top[1] = context[current][y_image]
    /\ image[paint_x][painted.top[1]] = BLACKPIXEL
    /\ image[paint_x][painted.top[1] + 1] = painted.color
    /\ painted.color # BLACKPIXEL

\* every raw elevation of column c is 0
AllSea(c) ==
    \A i \in 1..Len(Item(pan_elevations, c)) :
        Item(pan_elevations, c)[i][raw] = 0

\* C20: with OCEANFRONT on, whatever a visible sample of raw elevation 0
\* writes, top pixel and fill, is the water colour, so that a column whose
\* raw elevations are all 0 never holds anything but sky and water; with
\* OCEANFRONT off such a sample writes its gray, with black for a ridge, as
\* any other sample does.
C20_Oceanfront ==
    /\ [][(Visiting /\ Visible /\ Sample[raw] = 0) =>
            \A row \in ImageRows :
               image'[paint_x][row] # image[paint_x][row] =>
                  image'[paint_x][row] \in
                     (IF OCEANFRONT THEN {BLUEPIXEL}
                      ELSE {Gray(paint_depth, Len(pointlist)), BLACKPIXEL})]_vars
    /\ [](OCEANFRONT =>
            \A c \in DOMAIN image :
               AllSea(c) =>
                  \A row \in ImageRows : image[c][row] \in {SkyPixel, BLUEPIXEL})

C20_Witness ==
    /\ ppc = "shown"
    /\ OCEANFRONT
    /\ AllSea(0)
    /\ \E row \in ImageRows : row < horizon /\ image[0][row] = BLUEPIXEL
    /\ \A row \in ImageRows : image[0][row] \in {SkyPixel, BLUEPIXEL}

(***************************************************************************)
(* Claims about the bearing conventions of the move functions              *)
(***************************************************************************)
\* C21: each move function treats the two bearing conventions alike: called
\* with the compass bearing b and compass_bearing=True it returns the
\* position it returns when called with cartesian(b) and
\* compass_bearing=False, the form the ray marcher uses.  For
\* azimuthal_equidistant_move the positions are compared as the points of
\* the plane they are converted from, which they are one-to-one with.
C21_BearingConventionsAgree ==
    (compass_flag /\ marched # <<>>) =>
        /\ spherical # <<>> => marched[1] = spherical
        /\ equirectangular # <<>> => marched[2] = equirectangular
        /\ displaced # <<>> => marched[3] = displaced

(***************************************************************************)
(* Claims about what the void interpolator leaves behind                   *)
(***************************************************************************)
\* C22: after correct_for_no_data returns, no element of the ray has VOID
\* in its raw field, wherever the void runs were (far end, interior, or
\* near end, index 0 included); every sample that was valid on entry has
\* the value it had, and the other fields of every element are unchanged.
C22_NoVoidRemains ==
    vpc = "done" =>
        /\ Len(elevations) = Len(raw_in)
        /\ \A j \in 1..Len(raw_in) :
              /\ elevations[j][raw] # VOID
              /\ raw_in[j][raw] # VOID => elevations[j][raw] = raw_in[j][raw]
              /\ elevations[j][y_cartesian] = raw_in[j][y_cartesian]
              /\ elevations[j][y_image] = raw_in[j][y_image]

(***************************************************************************)
(* Claims about the working sign of a Degree                               *)
(***************************************************************************)
\* the byte offset of the row (or column) of a coordinate when the index is
\* counted from the other end exactly if the delta's sign differs from the
\* coordinate's
OffsetBySignOfAngle(g, direction, width) ==
    LET index == Abs(g.m * 60 + g.s) \div Abs(direction)
    IN  IF Sgn(direction) # Sgn(TotalSeconds(g))
        THEN (SAMPLES_PER_ROW - index - 1) * width
        ELSE index * width

\* C23: the working sign of a Degree agrees with its angle: for every
\* nonzero angle, after construction from a decimal value or a tuple (an
\* angle strictly between -1 and 0 degrees included) and after any sequence
\* of sample-sized additions, sign is +1 for a positive angle and -1 for a
\* negative one, so that north_offset and east_offset count from the other
\* end exactly when the delta's sign differs from the coordinate's.
C23_SignAgreesWithAngle ==
    (dpc \in {"made", "added"} /\ TotalSeconds(deg) # 0) =>
        /\ deg.sign = Sgn(TotalSeconds(deg))
        /\ \A direction \in {SAMPLE_SECONDS, -SAMPLE_SECONDS} :
              /\ north_offset(deg, direction)
                    = OffsetBySignOfAngle(deg, direction, BYTES_PER_ROW)
              /\ east_offset(deg, direction)
                    = OffsetBySignOfAngle(deg, direction, 2)

====
